---- MODULE Spec2Model ----
(***************************************************************************)
(* Streaming chat session, chat timeline and history pagination of the     *)
(* "yield" frontend.                                                       *)
(*                                                                         *)
(* Text is a sequence of one-character strings.  The response body is a    *)
(* sequence of bytes: an ASCII byte is written as its character, and the   *)
(* two bytes of the UTF-8 encoding of U+00E9 are written "C3" and "A9".    *)
(***************************************************************************)
EXTENDS Integers, Sequences, FiniteSets, TLC

VARIABLES
    \* ---- streamChatResponse (one session) ----
    spc,            \* position of streamChatResponse: idle, fetch, reading, done
    body,           \* bytes of the response body the server sends
    pos,            \* number of bytes of body the reader has delivered
    decPending,     \* bytes held inside the TextDecoder ({stream: true})
    buffer,         \* let buffer
    calls,          \* callbacks invoked so far, in order
    abortRequested, \* the caller asked to cancel the session
    failure,        \* why the session failed: none, network, http, nobody
    status,         \* response.status, 0 before there is a response
    \* ---- store ----
    user,           \* state.auth.user?.id
    chat,           \* state.chat (ChatState)
    \* ---- sendMessage thunk ----
    sendPc,         \* idle, saveUser, stream, saveAi
    aiMessageId,    \* const aiMessageId
    accumulatedContent, \* let accumulatedContent
    sendBase,       \* state.chat.messages when the send was dispatched
    finalized,      \* times onComplete ran for the current send
    nSettled,       \* sendMessage thunks settled so far
    inFlight,       \* sendMessage thunks dispatched and not yet settled
    histMerged,     \* a history page was merged since the send was dispatched
    lastOutcome,    \* how the last stream of sendMessage settled its thunk
    thunkLocals,    \* userId, userMessage and contextMessages of the current send
    saveFailed,     \* an insert of the current send failed
    \* ---- components ----
    historyRequestedRef, \* AuthProvider.historyRequestedRef
    fetchingOlderRef,    \* ChatInterface.fetchingOlderRef
    rafPending,          \* the requestAnimationFrame callback of fetchOlder is queued
    nSignOuts,           \* sessions that ended so far
    \* ---- Header (search) ----
    hdr,            \* state and refs of Header
    timer,          \* the setTimeout of the debounce effect
    searchReq,      \* apiClient.get requests in flight
    searchLog,      \* what the search did so far
    \* ---- environment ----
    now,            \* Date.now()
    rows,           \* table chat_history, in insertion order
    histReq         \* fetchChatHistory queries in flight

streamVars == <<spc, body, pos, decPending, buffer, calls, abortRequested, failure,
                status>>
sendVars == <<sendPc, aiMessageId, accumulatedContent, sendBase, finalized, nSettled,
              inFlight, histMerged, lastOutcome, thunkLocals, saveFailed>>
histVars == <<historyRequestedRef, fetchingOlderRef, rafPending, histReq, nSignOuts>>
searchVars == <<hdr, timer, searchReq, searchLog>>
chatVars == <<user, chat, sendVars, histVars, now, rows, searchVars>>
appVars == <<streamVars, user, chat, sendVars, histVars, now, rows>>
vars == <<streamVars, chatVars>>

----------------------------------------------------------------------------
(* Bounds *)

MaxFrames == 2      \* segments in a generated response body
MaxSends == 1       \* sendMessage thunks that settle in one behaviour
MaxSignOuts == 1    \* sessions that end in one behaviour
MaxRequests == 2    \* search requests issued in one behaviour
Window == 2         \* clock ticks in the 350 ms of the debounce timer

----------------------------------------------------------------------------
(* Text helpers: String.prototype.trim / startsWith / substring / replace / split *)

NL == "\n"
SP == " "
Whitespace == {SP, NL}

RECURSIVE TrimStart(_)
TrimStart(s) ==
    IF s = <<>> THEN s
    ELSE IF Head(s) \in Whitespace THEN TrimStart(Tail(s)) ELSE s

RECURSIVE TrimEnd(_)
TrimEnd(s) ==
    IF s = <<>> THEN s
    ELSE IF s[Len(s)] \in Whitespace THEN TrimEnd(SubSeq(s, 1, Len(s) - 1)) ELSE s

Trim(s) == TrimEnd(TrimStart(s))

StartsWith(s, p) == Len(s) >= Len(p) /\ SubSeq(s, 1, Len(p)) = p

Substring(s, n) == SubSeq(s, n + 1, Len(s))

\* index of the first occurrence of p in s at or after i, 0 when there is none
IndexFrom(s, p, i) ==
    LET hits == {k \in i..(Len(s) - Len(p) + 1) : SubSeq(s, k, k + Len(p) - 1) = p}
    IN  IF hits = {} THEN 0 ELSE CHOOSE k \in hits : \A m \in hits : k <= m

IndexOf(s, p) == IndexFrom(s, p, 1)

\* s.replace(p, ""): the first occurrence only
ReplaceFirst(s, p) ==
    LET i == IndexOf(s, p)
    IN  IF i = 0 THEN s
        ELSE SubSeq(s, 1, i - 1) \o SubSeq(s, i + Len(p), Len(s))

\* s.split(sep): leftmost non-overlapping separators; always at least one piece
RECURSIVE Split(_, _)
Split(s, sep) ==
    LET i == IndexOf(s, sep)
    IN  IF i = 0 THEN <<s>>
        ELSE <<SubSeq(s, 1, i - 1)>> \o Split(SubSeq(s, i + Len(sep), Len(s)), sep)

Last(q) == q[Len(q)]
Front(q) == SubSeq(q, 1, Len(q) - 1)

----------------------------------------------------------------------------
(* TextDecoder.decode(value, {stream: true}) on the bytes of the model *)

LeadByte == "C3"
ContByte == "A9"
EAcute == "e'"          \* U+00E9, one character
Replacement == "U+FFFD"

\* a byte that gives no character of its own: the second byte of a pair, or a
\* lead byte the chunk ends with
NoChar == "none"

\* `pending` is the lead byte the previous chunk ended with, if any.  A lead
\* byte with its continuation byte is one character; a lead byte followed by
\* another byte, and a continuation byte without its lead byte, are replaced;
\* a lead byte at the end of the chunk waits for the next chunk.
Decode(pending, bytes) ==
    LET all == pending \o bytes
        n == Len(all)
        char(i) ==
            IF all[i] = LeadByte
            THEN IF i = n THEN NoChar
                 ELSE IF all[i + 1] = ContByte THEN EAcute ELSE Replacement
            ELSE IF all[i] = ContByte
            THEN IF i > 1 /\ all[i - 1] = LeadByte THEN NoChar ELSE Replacement
            ELSE all[i]
        chars == [i \in 1..n |-> char(i)]
    IN  [text |-> SelectSeq(chars, LAMBDA c : c # NoChar),
         pending |-> IF n > 0 /\ all[n] = LeadByte THEN <<LeadByte>> ELSE <<>>]

----------------------------------------------------------------------------
(* parseSSEChunk *)

DataPrefix == <<"d", "a", "t", "a", ":">>
DoneTag == <<"[", "D", "O", "N", "E", "]">>
ErrorTag == <<"[", "E", "R", "R", "O", "R", "]", ":">>

\* StripPrefixes without the trim after each stripped prefix
RECURSIVE StripPrefixesNoTrim(_)
StripPrefixesNoTrim(data) ==
    IF StartsWith(data, DataPrefix)
    THEN StripPrefixesNoTrim(Substring(data, 5))
    ELSE data

\* while (data.startsWith("data:")) data = data.substring(5).trim()
RECURSIVE StripPrefixes(_)
StripPrefixes(data) ==
    IF StartsWith(data, DataPrefix)
    THEN StripPrefixes(Trim(Substring(data, 5)))
    ELSE data

\* parseSSEChunk with an if in place of the while: one prefix is removed
parseSSEChunkOnePrefix(chunk) ==
    LET t == Trim(chunk)
        data == IF StartsWith(t, DataPrefix) THEN Trim(Substring(t, 5)) ELSE t
    IN  IF data = DoneTag
        THEN [data |-> <<>>, done |-> TRUE, hasError |-> FALSE, error |-> <<>>]
        ELSE IF StartsWith(data, ErrorTag)
        THEN [data |-> <<>>, done |-> TRUE, hasError |-> TRUE,
              error |-> Trim(ReplaceFirst(data, ErrorTag))]
        ELSE [data |-> data, done |-> FALSE, hasError |-> FALSE, error |-> <<>>]

\* hasError is FALSE where the field error is absent (undefined)
parseSSEChunk(chunk) ==
    LET data == StripPrefixes(Trim(chunk))
    IN  IF data = DoneTag
        THEN [data |-> <<>>, done |-> TRUE, hasError |-> FALSE, error |-> <<>>]
        ELSE IF StartsWith(data, ErrorTag)
        THEN [data |-> <<>>, done |-> TRUE, hasError |-> TRUE,
              error |-> Trim(ReplaceFirst(data, ErrorTag))]
        ELSE [data |-> data, done |-> FALSE, hasError |-> FALSE, error |-> <<>>]

\* JavaScript truthiness of a string-or-undefined value
Truthy(present, s) == present /\ s # <<>>

----------------------------------------------------------------------------
(* Callback records *)

OnChunk(text) == [cb |-> "onChunk", arg |-> text]
OnError(msg) == [cb |-> "onError", arg |-> msg]
OnComplete == [cb |-> "onComplete", arg |-> <<>>]

\* Error messages thrown inside streamChatResponse: one token each
SessionExpired == <<"Session expired. Please login again.">>
StatusText(code) ==
    CASE code = 200 -> "200" [] code = 401 -> "401"
      [] code = 404 -> "404" [] code = 500 -> "500"
HttpError(code) == <<"HTTP error! status: ", StatusText(code)>>

\* every status that is not ok gets the generic message
ErrorForStatusGeneric(code) == HttpError(code)

\* if (response.status === 401) ... else ...
ErrorForStatus(code) == IF code = 401 THEN SessionExpired ELSE HttpError(code)
BodyIsNull == <<"Response body is null">>
TransportMessage == <<"network error">>

----------------------------------------------------------------------------
(* Response bodies *)

DataSp == DataPrefix \o <<SP>>

SegHi == DataSp \o <<"H", "i">>
SegDone == DataSp \o DoneTag
SegError == DataSp \o ErrorTag \o <<SP, "n", "o">>
SegErrorEmpty == DataSp \o ErrorTag
SegEmpty == <<>>
SegMulti == DataSp \o <<SP, LeadByte, ContByte>>
SegErrorBlank == DataSp \o ErrorTag \o <<SP, SP>>
SegNested == DataSp \o DataSp \o <<"x">>

\* the segments the generated bodies are made of
Segments == {SegHi, SegDone, SegError, SegErrorEmpty, SegEmpty}

Delimiter == <<NL, NL>>

RECURSIVE Join(_)
Join(segs) ==
    IF segs = <<>> THEN <<>>
    ELSE IF Len(segs) = 1 THEN Head(segs)
    ELSE Head(segs) \o Delimiter \o Join(Tail(segs))

\* "data: Hello\n\ndata:  world\n\ndata: [DONE]\n\n"
Scenario1 ==
    DataSp \o <<"H", "e", "l", "l", "o">> \o Delimiter
    \o DataSp \o <<SP, "w", "o", "r", "l", "d">> \o Delimiter
    \o DataSp \o DoneTag \o Delimiter

RateLimited == <<"r", "a", "t", "e", SP, "l", "i", "m", "i", "t", "e", "d">>

\* "data: [ERROR]: rate limited\n\n"
Scenario2 == DataSp \o ErrorTag \o <<SP>> \o RateLimited \o Delimiter

GeneratedBodies ==
    LET seqs == UNION {[1..n -> Segments] : n \in 0..MaxFrames}
    IN  {Join(fs) : fs \in seqs} \cup {Join(fs) \o Delimiter : fs \in seqs}

\* bodies with a multi-byte character, a whitespace-only error message, a
\* repeated prefix and a segment without prefix
ExtraBodies ==
    {SegHi \o Delimiter \o SegMulti \o Delimiter \o SegDone \o Delimiter,
     SegHi \o Delimiter \o SegErrorBlank \o Delimiter,
     SegNested \o Delimiter \o <<NL, "z">>,
     Scenario1, Scenario2}

Bodies == GeneratedBodies \cup ExtraBodies

\* the bodies answered to a chat request of sendMessage
ChatBodies ==
    {<<>>,
     SegHi \o Delimiter \o SegDone \o Delimiter,
     SegHi \o Delimiter \o SegError \o Delimiter,
     SegError \o Delimiter}

Statuses == {200, 401, 404, 500}

----------------------------------------------------------------------------
(* streamChatResponse: the read loop as functions of its local state *)

\* ProcessLines without the return after onComplete
RECURSIVE ProcessLinesNoReturnAfterDone(_)
ProcessLinesNoReturnAfterDone(lines) ==
    IF lines = <<>> THEN [out |-> <<>>, ret |-> FALSE]
    ELSE LET line == Head(lines) IN
         IF Trim(line) = <<>> THEN ProcessLinesNoReturnAfterDone(Tail(lines))
         ELSE LET chunk == parseSSEChunk(line)
                  r == ProcessLinesNoReturnAfterDone(Tail(lines)) IN
              IF Truthy(chunk.hasError, chunk.error)
              THEN [out |-> <<OnError(chunk.error)>>, ret |-> TRUE]
              ELSE IF chunk.done
              THEN [out |-> <<OnComplete>> \o r.out, ret |-> r.ret]
              ELSE IF chunk.data # <<>>
              THEN [out |-> <<OnChunk(chunk.data \o <<SP>>)>> \o r.out, ret |-> r.ret]
              ELSE r

\* ProcessLines without the return after onError
RECURSIVE ProcessLinesNoReturnAfterError(_)
ProcessLinesNoReturnAfterError(lines) ==
    IF lines = <<>> THEN [out |-> <<>>, ret |-> FALSE]
    ELSE LET line == Head(lines) IN
         IF Trim(line) = <<>> THEN ProcessLinesNoReturnAfterError(Tail(lines))
         ELSE LET chunk == parseSSEChunk(line)
                  r == ProcessLinesNoReturnAfterError(Tail(lines)) IN
              IF Truthy(chunk.hasError, chunk.error)
              THEN [out |-> <<OnError(chunk.error)>> \o r.out, ret |-> r.ret]
              ELSE IF chunk.done
              THEN [out |-> <<OnComplete>>, ret |-> TRUE]
              ELSE IF chunk.data # <<>>
              THEN [out |-> <<OnChunk(chunk.data \o <<SP>>)>> \o r.out, ret |-> r.ret]
              ELSE r

\* for (const line of lines) { ... }: the callbacks made, and whether it returned
RECURSIVE ProcessLines(_)
ProcessLines(lines) ==
    IF lines = <<>> THEN [out |-> <<>>, ret |-> FALSE]
    ELSE LET line == Head(lines) IN
         IF Trim(line) = <<>> THEN ProcessLines(Tail(lines))
         ELSE LET chunk == parseSSEChunk(line) IN
              IF Truthy(chunk.hasError, chunk.error)
              THEN [out |-> <<OnError(chunk.error)>>, ret |-> TRUE]
              ELSE IF chunk.done
              THEN [out |-> <<OnComplete>>, ret |-> TRUE]
              ELSE IF chunk.data # <<>>
              THEN LET r == ProcessLines(Tail(lines))
                   IN  [out |-> <<OnChunk(chunk.data \o <<SP>>)>> \o r.out, ret |-> r.ret]
              ELSE ProcessLines(Tail(lines))

\* ReadStep that forgets the unterminated remainder of the previous read
ReadStepNoCarry(pending, buf, value) ==
    LET d == Decode(pending, value)
        lines == Split(d.text, Delimiter)
        r == ProcessLines(Front(lines))
    IN  [pending |-> d.pending, buffer |-> Last(lines), out |-> r.out, ret |-> r.ret]

\* ReadStep that keeps the segments it has processed in the buffer
ReadStepKeepAll(pending, buf, value) ==
    LET d == Decode(pending, value)
        lines == Split(buf \o d.text, Delimiter)
        r == ProcessLines(Front(lines))
    IN  [pending |-> d.pending, buffer |-> buf \o d.text, out |-> r.out, ret |-> r.ret]

\* one iteration of while (true) with done = false
ReadStep(pending, buf, value) ==
    LET d == Decode(pending, value)
        lines == Split(buf \o d.text, Delimiter)
        r == ProcessLines(Front(lines))
    IN  [pending |-> d.pending, buffer |-> Last(lines), out |-> r.out, ret |-> r.ret]

\* after the loop: "Process remaining buffer", then onComplete
EndStep(buf) ==
    LET chunk == parseSSEChunk(buf)
    IN  (IF Trim(buf) # <<>> /\ ~chunk.done /\ chunk.data # <<>>
         THEN <<OnChunk(chunk.data \o <<SP>>)>> ELSE <<>>)
        \o <<OnComplete>>

----------------------------------------------------------------------------
(* Store: state.chat and its reducers *)

Null == <<>>            \* null for currentStreamId, historyCursor and error
NoUser == "none"        \* state.auth.user is null
Users == {"u1", "u2"}

CHAT_PAGE_SIZE == 20

initialState ==
    [messages |-> <<>>, inputValue |-> <<>>, loading |-> FALSE, error |-> Null,
     streaming |-> FALSE, currentStreamId |-> Null, historyLoading |-> FALSE,
     hasMoreHistory |-> TRUE, historyCursor |-> Null,
     initialHistoryLoaded |-> FALSE]

\* formatError applied to a string: neither an AxiosError nor an Error
UnknownError == <<"An unknown error occurred">>
formatError(error) == UnknownError
NotAuthenticated == <<"User not authenticated">>
FailedToSend == <<"Failed to send message">>
FailedToFetch == <<"Failed to fetch history">>

\* a Message without its display-only timestamp field
Message(id, role, content, createdAt) ==
    [id |-> id, role |-> role, content |-> content, createdAt |-> createdAt]

addMessage(state, payload) ==
    [state EXCEPT !.messages = Append(@, payload)]

setInputValue(state, payload) == [state EXCEPT !.inputValue = payload]

\* messages.findIndex(msg => msg.id === id), 0 for -1
FindIndex(messages, id) ==
    LET hits == {i \in 1..Len(messages) : messages[i].id = id}
    IN  IF hits = {} THEN 0 ELSE CHOOSE i \in hits : \A j \in hits : i <= j

addStreamingChunk(state, id, content, t) ==
    LET existingIndex == FindIndex(state.messages, id)
        msgs == IF existingIndex > 0
                THEN [state.messages EXCEPT ![existingIndex].content = content]
                ELSE Append(state.messages, Message(id, "ai", content, t))
    IN  [state EXCEPT !.messages = msgs, !.streaming = TRUE, !.currentStreamId = id]

setStreaming(state, payload) ==
    [state EXCEPT !.streaming = payload,
                  !.currentStreamId = IF payload THEN @ ELSE Null]

setError(state, payload) == [state EXCEPT !.error = payload]

fetchChatHistoryPending(state) ==
    [state EXCEPT !.historyLoading = TRUE, !.error = Null]

\* a reducer that leaves hasMoreHistory alone
fetchChatHistoryFulfilledKeepHasMore(state, payload) ==
    [state EXCEPT !.historyLoading = FALSE,
                  !.historyCursor = payload.cursor,
                  !.messages = IF payload.fetchedOlder
                               THEN payload.messages \o @
                               ELSE IF Len(payload.messages) > 0
                                    THEN payload.messages ELSE @,
                  !.initialHistoryLoaded = IF payload.fetchedOlder THEN @ ELSE TRUE]

fetchChatHistoryFulfilled(state, payload) ==
    [state EXCEPT !.historyLoading = FALSE,
                  !.hasMoreHistory = payload.hasMore,
                  !.historyCursor = payload.cursor,
                  !.messages = IF payload.fetchedOlder
                               THEN payload.messages \o @
                               ELSE IF Len(payload.messages) > 0
                                    THEN payload.messages ELSE @,
                  !.initialHistoryLoaded = IF payload.fetchedOlder THEN @ ELSE TRUE]

fetchChatHistoryRejected(state, payload) ==
    [state EXCEPT !.historyLoading = FALSE,
                  !.error = IF payload # <<>> THEN payload ELSE FailedToFetch]

\* sendMessage.pending that leaves loading alone
sendMessagePendingNoLoading(state) ==
    [state EXCEPT !.error = Null, !.streaming = TRUE]

sendMessagePending(state) ==
    [state EXCEPT !.loading = TRUE, !.error = Null, !.streaming = TRUE]

sendMessageFulfilled(state) ==
    [state EXCEPT !.loading = FALSE, !.streaming = FALSE, !.currentStreamId = Null]

\* sendMessage.rejected that stores the error and leaves the send flags alone
sendMessageRejectedKeepLoading(state, payload) ==
    [state EXCEPT !.error = IF payload # <<>> THEN payload ELSE FailedToSend]

sendMessageRejected(state, payload) ==
    [state EXCEPT !.loading = FALSE, !.streaming = FALSE, !.currentStreamId = Null,
                  !.error = IF payload # <<>> THEN payload ELSE FailedToSend]

----------------------------------------------------------------------------
(* sendMessage: the three callbacks it hands to streamChatResponse *)

\* st = [chat, acc, pc, fin]: the store slice and the thunk's locals
sendOnChunk(st, chunk) ==
    LET acc == st.acc \o chunk
    IN  [st EXCEPT !.acc = acc,
                   !.chat = addStreamingChunk(st.chat, aiMessageId, acc, now)]

\* reject(new Error(error)) lands in the thunk's catch: rejectWithValue
sendOnError(st, error) ==
    [st EXCEPT !.chat = sendMessageRejected(
                            setStreaming(setError(st.chat, formatError(error)), FALSE),
                            formatError(error)),
               !.pc = "idle"]

\* runs up to its await of the insert; the rest is AiSaveSettle
sendOnComplete(st) == [st EXCEPT !.pc = "saveAi", !.fin = @ + 1]

RECURSIVE ApplyCallbacks(_, _)
ApplyCallbacks(out, st) ==
    IF out = <<>> THEN st
    ELSE LET c == Head(out)
             next == IF c.cb = "onChunk" THEN sendOnChunk(st, c.arg)
                     ELSE IF c.cb = "onError" THEN sendOnError(st, c.arg)
                     ELSE sendOnComplete(st)
         IN  ApplyCallbacks(Tail(out), next)

\* the callbacks `out` are invoked: recorded (unless the session and its record
\* are gone with this step), and run when sendMessage owns the session
Emit(out, gone) ==
    /\ calls' = IF gone THEN <<>> ELSE calls \o out
    /\ IF sendPc = "stream"
       THEN LET r == ApplyCallbacks(out, [chat |-> chat, acc |-> accumulatedContent,
                                          pc |-> sendPc, fin |-> finalized])
            IN  /\ chat' = r.chat
                /\ accumulatedContent' = r.acc
                /\ sendPc' = r.pc
                /\ finalized' = r.fin
                /\ inFlight' = IF r.pc = "idle" THEN inFlight - 1 ELSE inFlight
                /\ lastOutcome' = IF r.pc = "idle" THEN "rejected" ELSE lastOutcome
                /\ nSettled' = IF r.pc = "idle" THEN nSettled + 1 ELSE nSettled
       ELSE UNCHANGED <<chat, accumulatedContent, sendPc, finalized, inFlight,
                        lastOutcome, nSettled>>
    /\ UNCHANGED <<user, aiMessageId, sendBase, histMerged, thunkLocals,
                   saveFailed, histVars, now, rows, searchVars>>

----------------------------------------------------------------------------
(* streamChatResponse *)

\* what the server may answer: any body to a bare session, one of ChatBodies
\* to a request of sendMessage
ResponseBodies == IF sendPc = "stream" THEN ChatBodies ELSE Bodies

\* the sizes of the next read: any split for a bare session; for a request of
\* sendMessage the rest of the body, or up to the end of a delimiter
ReadSizes ==
    LET rest == 1..(Len(body) - pos)
    IN  IF sendPc = "stream"
        THEN {k \in rest : \/ k = Len(body) - pos
                           \/ /\ pos + k >= 2
                              /\ SubSeq(body, pos + k - 1, pos + k) = Delimiter}
        ELSE rest

IdleSession ==
    [spc |-> "idle", body |-> <<>>, pos |-> 0, decPending |-> <<>>,
     buffer |-> <<>>, failure |-> "none", status |-> 0]

Session ==
    [spc |-> spc, body |-> body, pos |-> pos, decPending |-> decPending,
     buffer |-> buffer, failure |-> failure, status |-> status]

\* One step of streamChatResponse: its locals become `next` and it invokes the
\* callbacks `out`.  When a session of sendMessage returns, its locals and the
\* record of its calls are gone.
StreamStep(next, out) ==
    LET gone == sendPc = "stream" /\ next.spc = "done"
        n == IF gone THEN IdleSession ELSE next
    IN  /\ spc' = n.spc /\ body' = n.body /\ pos' = n.pos
        /\ decPending' = n.decPending /\ buffer' = n.buffer /\ failure' = n.failure
        /\ status' = n.status
        /\ Emit(out, gone)
        /\ UNCHANGED abortRequested

\* the call itself, up to `await fetch(...)`
StartStream ==
    /\ spc = "idle"
    /\ sendPc = "idle"
    /\ spc' = "fetch"
    /\ UNCHANGED <<body, pos, decPending, buffer, calls, abortRequested, failure,
                   status>>
    /\ UNCHANGED chatVars

\* fetch rejects: catch (error) -> onError(error.message)
FetchReject ==
    /\ spc = "fetch"
    /\ StreamStep([Session EXCEPT !.spc = "done", !.failure = "network"],
                  <<OnError(TransportMessage)>>)

\* fetch resolves with a response
FetchResponse ==
    /\ spc = "fetch"
    /\ \E code \in Statuses, hasBody \in BOOLEAN, b \in ResponseBodies :
         LET ok == code >= 200 /\ code <= 299 IN
         IF ~ok
         THEN /\ hasBody /\ b = <<>>
              /\ StreamStep([Session EXCEPT !.spc = "done", !.failure = "http",
                                            !.status = code],
                            <<OnError(ErrorForStatus(code))>>)
         ELSE IF ~hasBody
         THEN /\ b = <<>>
              /\ StreamStep([Session EXCEPT !.spc = "done", !.failure = "nobody",
                                            !.status = code],
                            <<OnError(BodyIsNull)>>)
         ELSE StreamStep([Session EXCEPT !.spc = "reading", !.body = b, !.pos = 0,
                                         !.decPending = <<>>, !.buffer = <<>>,
                                         !.status = code],
                         <<>>)

\* reader.read() resolves with done = false and the next k bytes
ReaderRead ==
    /\ spc = "reading"
    /\ \E k \in ReadSizes :
         LET r == ReadStep(decPending, buffer, SubSeq(body, pos + 1, pos + k)) IN
         StreamStep([Session EXCEPT !.spc = IF r.ret THEN "done" ELSE "reading",
                                    !.pos = pos + k,
                                    !.decPending = r.pending,
                                    !.buffer = r.buffer],
                    r.out)

\* reader.read() resolves with done = true
ReaderDone ==
    /\ spc = "reading"
    /\ pos = Len(body)
    /\ StreamStep([Session EXCEPT !.spc = "done"], EndStep(buffer))

\* reader.read() rejects
ReaderThrow ==
    /\ spc = "reading"
    /\ StreamStep([Session EXCEPT !.spc = "done", !.failure = "network"],
                  <<OnError(TransportMessage)>>)

\* the caller wants the session cancelled: streamChatResponse takes no signal
\* and passes none to fetch, so the request reaches nothing
Abort ==
    /\ spc \in {"fetch", "reading"}
    /\ ~abortRequested
    /\ abortRequested' = TRUE
    /\ UNCHANGED <<spc, body, pos, decPending, buffer, calls, failure, status>>
    /\ UNCHANGED chatVars

----------------------------------------------------------------------------
(* chat_history and fetchChatHistory *)

Inputs == {<<SP>>, <<"h", "i">>}
InitialRowCounts == {0, 2, 20, 21}

Row(id, userId, type, content, t) ==
    [id |-> id, user_id |-> userId, type |-> type, content |-> content,
     created_at |-> t]

\* the table a session starts from: n rows of u1, created at 1..n, and no row
\* of u2
Table(n) ==
    [i \in 1..n |-> Row(i, "u1", IF i % 2 = 1 THEN "human" ELSE "ai", <<"m">>, i)]

\* CHAT_PAGE_SIZE + 1 rows of which the two oldest have the same created_at:
\* the tie lies where the first page ends
TiedTable == [Table(CHAT_PAGE_SIZE + 1) EXCEPT ![1].created_at = 2]

Tables == {Table(n) : n \in InitialRowCounts} \cup {TiedTable}

mapRowToMessage(row) ==
    Message(<<"row", row.id>>, IF row.type = "human" THEN "user" ELSE "ai",
            row.content, row.created_at)

TakeLast(q, n) == IF Len(q) <= n THEN q ELSE SubSeq(q, Len(q) - n + 1, Len(q))

\* the query with .lte in place of .lt
QueryPageInclusive(userId, before) ==
    LET match(r) == /\ r.user_id = userId
                    /\ (before = Null \/ r.created_at <= before[1])
        page == TakeLast(SelectSeq(rows, match), CHAT_PAGE_SIZE)
    IN  [messages |-> [i \in 1..Len(page) |-> mapRowToMessage(page[i])],
         fetchedOlder |-> before # Null,
         hasMore |-> Len(page) = CHAT_PAGE_SIZE,
         cursor |-> IF Len(page) > 0 THEN <<page[1].created_at>> ELSE before]

\* The payload of fetchChatHistory.fulfilled.  rows is in ascending created_at,
\* so the newest CHAT_PAGE_SIZE matching rows in descending order, mapped and
\* reversed, are the last CHAT_PAGE_SIZE matching rows in table order; the last
\* row of the descending data is the first of them.
QueryPage(userId, before) ==
    LET match(r) == /\ r.user_id = userId
                    /\ (before = Null \/ r.created_at < before[1])
        page == TakeLast(SelectSeq(rows, match), CHAT_PAGE_SIZE)
    IN  [messages |-> [i \in 1..Len(page) |-> mapRowToMessage(page[i])],
         fetchedOlder |-> before # Null,
         hasMore |-> Len(page) = CHAT_PAGE_SIZE,
         cursor |-> IF Len(page) > 0 THEN <<page[1].created_at>> ELSE before]

\* dispatch(fetchChatHistory({before})): pending, then the query is awaited
DispatchFetchHistory(before) ==
    IF user' = NoUser
    THEN /\ chat' = fetchChatHistoryRejected(fetchChatHistoryPending(chat),
                                            NotAuthenticated)
         /\ UNCHANGED histReq
    ELSE /\ chat' = fetchChatHistoryPending(chat)
         /\ histReq' = Append(histReq, [before |-> before, userId |-> user',
                                        orphan |-> FALSE, session |-> nSignOuts])

\* AuthProvider: supabase.auth.onAuthStateChange with a session; the session of
\* another user begins only after the current one has ended
onAuthStateChange ==
    /\ \E u \in Users, event \in {"SIGNED_IN", "INITIAL_SESSION", "TOKEN_REFRESHED"} :
         /\ user = NoUser \/ u = user
         /\ user' = u
         /\ IF event # "TOKEN_REFRESHED" /\ ~historyRequestedRef
            THEN /\ DispatchFetchHistory(Null)
                 /\ historyRequestedRef' = TRUE
            ELSE UNCHANGED <<chat, histReq, historyRequestedRef>>
    /\ UNCHANGED <<fetchingOlderRef, rafPending, nSignOuts, sendVars, now, rows>>
    /\ UNCHANGED <<streamVars, searchVars>>

\* AuthProvider: supabase.auth.onAuthStateChange without a session
onSignedOut ==
    /\ user # NoUser
    /\ nSignOuts < MaxSignOuts
    /\ nSignOuts' = nSignOuts + 1
    /\ user' = NoUser
    /\ historyRequestedRef' = FALSE
    /\ UNCHANGED <<chat, fetchingOlderRef, rafPending, histReq, sendVars, now, rows>>
    /\ UNCHANGED <<streamVars, searchVars>>

\* ChatInterface is unmounted and mounted again (navigation): the new instance
\* has its own fetchingOlderRef, and what the old one still awaits is its own
MountChatInterface ==
    /\ fetchingOlderRef
    /\ fetchingOlderRef' = FALSE
    /\ rafPending' = FALSE
    /\ histReq' = [i \in DOMAIN histReq |-> [histReq[i] EXCEPT !.orphan = TRUE]]
    /\ UNCHANGED <<user, chat, historyRequestedRef, nSignOuts, sendVars, now, rows>>
    /\ UNCHANGED <<streamVars, searchVars>>

\* ChatInterface: the IntersectionObserver calls fetchOlderMessagesRef.current
FetchOlder ==
    /\ chat.initialHistoryLoaded /\ chat.hasMoreHistory /\ Len(chat.messages) > 0
    /\ ~( \/ fetchingOlderRef
          \/ ~chat.hasMoreHistory
          \/ chat.historyLoading
          \/ chat.historyCursor = Null )
    /\ fetchingOlderRef' = TRUE
    /\ user' = user
    /\ DispatchFetchHistory(chat.historyCursor)
    /\ rafPending' = (rafPending \/ user = NoUser)
    /\ UNCHANGED <<historyRequestedRef, nSignOuts, sendVars, now, rows>>
    /\ UNCHANGED <<streamVars, searchVars>>

RemoveAt(q, i) == SubSeq(q, 1, i - 1) \o SubSeq(q, i + 1, Len(q))

\* a fetchChatHistory query settles: fulfilled with its page, or rejected
HistorySettle ==
    /\ \E i \in DOMAIN histReq, ok \in BOOLEAN :
         LET req == histReq[i] IN
         /\ chat' = IF ok
                    THEN fetchChatHistoryFulfilled(chat, QueryPage(req.userId, req.before))
                    ELSE fetchChatHistoryRejected(chat, formatError(TransportMessage))
         /\ histReq' = RemoveAt(histReq, i)
         /\ rafPending' = (rafPending \/ (req.before # Null /\ ~req.orphan))
         /\ histMerged' = (histMerged \/ ok)
    /\ UNCHANGED <<user, historyRequestedRef, fetchingOlderRef, nSignOuts, now, rows>>
    /\ UNCHANGED <<sendPc, aiMessageId, accumulatedContent, sendBase, finalized,
                   nSettled, inFlight, lastOutcome, thunkLocals, saveFailed>>
    /\ UNCHANGED <<streamVars, searchVars>>

\* requestAnimationFrame(() => { ...; fetchingOlderRef.current = false })
AnimationFrame ==
    /\ rafPending
    /\ rafPending' = FALSE
    /\ fetchingOlderRef' = FALSE
    /\ UNCHANGED <<user, chat, historyRequestedRef, histReq, nSignOuts, sendVars,
                   now, rows>>
    /\ UNCHANGED <<streamVars, searchVars>>

----------------------------------------------------------------------------
(* ChatInterface input and the sendMessage thunk *)

\* onChange of the input, which is disabled while loading
TypeInput ==
    /\ ~chat.loading
    /\ \E v \in Inputs :
         /\ v # chat.inputValue
         /\ chat' = setInputValue(chat, v)
    /\ UNCHANGED <<user, sendVars, histVars, now, rows>>
    /\ UNCHANGED <<streamVars, searchVars>>

\* if (inputValue.trim() && !loading)
CanSend(state) == Trim(state.inputValue) # <<>> /\ ~state.loading

\* handleSend: dispatch(sendMessage(inputValue)) runs the pending reducer and the
\* thunk up to its first await, then dispatch(setInputValue(""))
HandleSend ==
    /\ CanSend(chat)
    /\ nSettled < MaxSends
    /\ LET userMessage == Message(<<"user", now>>, "user", chat.inputValue, now) IN
       IF user = NoUser
       THEN /\ chat' = setInputValue(
                         sendMessageRejected(sendMessagePending(chat), NotAuthenticated),
                         <<>>)
            /\ nSettled' = nSettled + 1
            /\ UNCHANGED <<sendPc, aiMessageId, accumulatedContent, sendBase, finalized,
                           inFlight, histMerged, lastOutcome, thunkLocals,
                           saveFailed>>
            /\ UNCHANGED streamVars
       ELSE /\ chat' = setInputValue(addMessage(sendMessagePending(chat), userMessage),
                                     <<>>)
            /\ sendPc' = "saveUser"
            /\ inFlight' = inFlight + 1
            /\ sendBase' = chat.messages
            /\ histMerged' = FALSE
            /\ finalized' = 0
            /\ aiMessageId' = Null
            /\ accumulatedContent' = <<>>
            /\ spc' = "idle" /\ body' = <<>> /\ pos' = 0 /\ decPending' = <<>>
            /\ buffer' = <<>> /\ calls' = <<>> /\ failure' = "none" /\ status' = 0
            /\ lastOutcome' = "none"
            /\ thunkLocals' = [userId |-> user, userMessage |-> userMessage,
                                contextMessages |-> <<>>]
            /\ saveFailed' = FALSE
            /\ UNCHANGED <<nSettled, abortRequested>>
    /\ UNCHANGED <<user, histVars, now, rows, searchVars>>

ContextLimit == 20

\* [...currentMessages, userMessage].map(...) without the slice
contextMessagesNoSlice(currentMessages, userMessage) ==
    LET all == Append(currentMessages, userMessage)
    IN  [i \in 1..Len(all) |->
            [role |-> IF all[i].role = "user" THEN "user" ELSE "assistant",
             content |-> all[i].content]]

\* [...currentMessages, userMessage].slice(-20).map(...), where currentMessages
\* is state.chat.messages of the state read when the thunk started
contextMessagesOf(currentMessages, userMessage) ==
    LET cut == TakeLast(Append(currentMessages, userMessage), ContextLimit)
    IN  [i \in 1..Len(cut) |->
            [role |-> IF cut[i].role = "user" THEN "user" ELSE "assistant",
             content |-> cut[i].content]]

\* the insert of the user message settles (a failure is only logged); then
\* aiMessageId, the context, and streamChatResponse up to its await of fetch
UserSaveSettle ==
    /\ sendPc = "saveUser"
    /\ \E ok \in BOOLEAN :
         /\ rows' = IF ok
                    THEN Append(rows, Row(Len(rows) + 1, thunkLocals.userId, "human",
                                          thunkLocals.userMessage.content, now + 1))
                    ELSE rows
         /\ saveFailed' = ~ok
    /\ now' = now + 1
    /\ aiMessageId' = <<"ai", now' + 1>>
    /\ accumulatedContent' = <<>>
    /\ thunkLocals' = [thunkLocals EXCEPT !.contextMessages =
                           contextMessagesOf(sendBase, thunkLocals.userMessage)]
    /\ sendPc' = "stream"
    /\ spc' = "fetch"
    /\ UNCHANGED <<body, pos, decPending, buffer, calls, abortRequested, failure,
                   status>>
    /\ UNCHANGED <<user, chat, sendBase, finalized, nSettled, inFlight, histMerged,
                   lastOutcome, histVars, searchVars>>

\* an onComplete that takes the streamed entry back when the insert failed
onCompleteAfterInsertRollback(state, ok) ==
    LET done == sendMessageFulfilled(setStreaming(state, FALSE))
    IN  IF ok THEN done
        ELSE [done EXCEPT !.messages = SelectSeq(@, LAMBDA m : m.role = "user")]

\* onComplete after the insert settled (a failure is only logged):
\* dispatch(setStreaming(false)), resolve(aiMessage), sendMessage.fulfilled
onCompleteAfterInsert(state, ok) == sendMessageFulfilled(setStreaming(state, FALSE))

\* onComplete after its await: the insert of the AI message settles, then
\* dispatch(setStreaming(false)), resolve(aiMessage) and sendMessage.fulfilled
AiSaveSettle ==
    /\ sendPc = "saveAi"
    /\ \E ok \in BOOLEAN :
         /\ rows' = IF ok
                    THEN Append(rows, Row(Len(rows) + 1, thunkLocals.userId, "ai",
                                          Trim(accumulatedContent), now + 1))
                    ELSE rows
         /\ saveFailed' = (saveFailed \/ ~ok)
         /\ chat' = onCompleteAfterInsert(chat, ok)
    /\ now' = now + 1
    /\ sendPc' = "idle"
    /\ inFlight' = inFlight - 1
    /\ lastOutcome' = "fulfilled"
    /\ nSettled' = nSettled + 1
    /\ UNCHANGED <<user, aiMessageId, accumulatedContent, sendBase, finalized,
                   histMerged, thunkLocals, histVars>>
    /\ UNCHANGED <<streamVars, searchVars>>

----------------------------------------------------------------------------
(* Header: search as you type *)

Inv == <<"i", "n", "v">>
Invoice == <<"i", "n", "v", "o", "i", "c", "e">>

\* what the input may hold
SearchTexts == {<<>>, <<"i">>, Inv, Inv \o <<SP>>, Invoice}

MinTermLength == 2

SearchFailed == <<"Unable to fetch search results. Please try again.">>

\* useState / useRef of Header; abortControllerRef is 0 for null, else the
\* number of the request its controller belongs to
InitHeader ==
    [query |-> <<>>, loading |-> FALSE, error |-> Null, results |-> Null,
     searchOpen |-> FALSE, latestQueryRef |-> <<>>, abortControllerRef |-> 0]

InitSearchLog ==
    [issued |-> <<>>,       \* terms of the requests issued, in order
     settled |-> <<>>,      \* numbers of the requests settled, in order
     appliedBy |-> 0,       \* request whose outcome was applied last
     edited |-> FALSE,      \* the input changed at least once
     sinceEdit |-> Window,  \* ticks since the input changed
     sinceChange |-> Window, \* ticks since the trimmed query changed
     editBurst |-> 0,       \* requests issued since a burst of input changes began
     termBurst |-> 0,       \* the same for a burst of changes of the trimmed query
     changes |-> 0]         \* changes of the trimmed query in that burst, up to 2

\* controller.abort() of the controller in abortControllerRef
AbortCurrent(h, reqs) ==
    [i \in DOMAIN reqs |->
        IF reqs[i].id = h.abortControllerRef
        THEN [reqs[i] EXCEPT !.aborted = TRUE] ELSE reqs[i]]

\* a guard that lets every outcome through
isLatestAlways(h, term) == TRUE

\* latestQueryRef.current === term
isLatest(h, term) == h.latestQueryRef = term

\* an effect whose cleanup does not clear a pending timeout
debounceEffectNoCleanup(h, tm, term) ==
    IF Len(term) < MinTermLength
    THEN [hdr |-> [h EXCEPT !.loading = FALSE,
                            !.results = IF Len(term) = 0 THEN Null ELSE @,
                            !.error = IF Len(term) = 0 THEN Null ELSE @],
          timer |-> tm, abort |-> TRUE]
    ELSE [hdr |-> h,
          timer |-> IF tm = Null THEN <<term, 0>> ELSE tm,
          abort |-> FALSE]

\* the debounce effect after trimmedQuery changed to term: the cleanup of the
\* previous run (clearTimeout), then the body; timer is <<term, age>>
debounceEffect(h, tm, term) ==
    IF Len(term) < MinTermLength
    THEN [hdr |-> [h EXCEPT !.loading = FALSE,
                            !.results = IF Len(term) = 0 THEN Null ELSE @,
                            !.error = IF Len(term) = 0 THEN Null ELSE @],
          timer |-> Null, abort |-> TRUE]
    ELSE [hdr |-> h, timer |-> <<term, 0>>, abort |-> FALSE]

Min(a, b) == IF a < b THEN a ELSE b

\* onChange of the search input: setQuery(text), setSearchOpen(true), render,
\* effects
SetQuery ==
    \E text \in SearchTexts :
      /\ text # hdr.query
      /\ LET h == [hdr EXCEPT !.query = text, !.searchOpen = TRUE]
             changed == Trim(text) # Trim(hdr.query)
             e == debounceEffect(h, timer, Trim(text))
         IN  /\ hdr' = IF changed THEN e.hdr ELSE h
             /\ timer' = IF changed THEN e.timer ELSE timer
             /\ searchReq' = IF changed /\ e.abort
                             THEN AbortCurrent(hdr, searchReq) ELSE searchReq
             /\ searchLog' =
                  [searchLog EXCEPT
                     !.edited = TRUE,
                     !.sinceEdit = 0,
                     !.sinceChange = IF changed THEN 0 ELSE @,
                     !.editBurst = IF searchLog.sinceEdit >= Window THEN 0 ELSE @,
                     !.termBurst = IF ~changed THEN @
                                   ELSE IF searchLog.sinceChange >= Window THEN 0
                                   ELSE @,
                     !.changes = IF ~changed THEN @
                                 ELSE IF searchLog.sinceChange >= Window THEN 1
                                 ELSE Min(@ + 1, 2)]
      /\ UNCHANGED appVars

\* the 350 ms of the pending timeout have passed
TimerDue == IF timer = Null THEN FALSE ELSE timer[2] = Window

\* time passes; a timeout that is due runs before more time passes
Tick ==
    /\ ~TimerDue
    /\ ~(timer = Null /\ searchLog.sinceEdit = Window /\ searchLog.sinceChange = Window)
    /\ timer' = IF timer = Null THEN Null ELSE <<timer[1], timer[2] + 1>>
    /\ searchLog' = [searchLog EXCEPT !.sinceEdit = Min(@ + 1, Window),
                                      !.sinceChange = Min(@ + 1, Window)]
    /\ UNCHANGED <<hdr, searchReq>>
    /\ UNCHANGED appVars

\* the timeout runs fetchResults(term) up to its await
TimerFires ==
    /\ TimerDue
    /\ Len(searchLog.issued) < MaxRequests
    /\ LET term == timer[1]
           id == Len(searchLog.issued) + 1
       IN  /\ searchReq' = Append(AbortCurrent(hdr, searchReq),
                                  [id |-> id, term |-> term, aborted |-> FALSE])
           /\ hdr' = [hdr EXCEPT !.abortControllerRef = id,
                                 !.latestQueryRef = term,
                                 !.loading = TRUE,
                                 !.error = Null]
           /\ searchLog' = [searchLog EXCEPT !.issued = Append(@, term),
                                             !.editBurst = @ + 1,
                                             !.termBurst = @ + 1]
    /\ timer' = Null
    /\ UNCHANGED appVars

\* apiClient.get resolves: the rest of try, then finally
SearchResolve ==
    /\ \E i \in DOMAIN searchReq :
         LET req == searchReq[i]
             mine == isLatest(hdr, req.term)
         IN  /\ hdr' = IF mine
                       THEN [hdr EXCEPT !.results = <<req.term, req.id>>,
                                        !.searchOpen = TRUE,
                                        !.loading = FALSE]
                       ELSE hdr
             /\ searchReq' = RemoveAt(searchReq, i)
             /\ searchLog' = [searchLog EXCEPT !.settled = Append(@, req.id),
                                               !.appliedBy = IF mine THEN req.id ELSE @]
    /\ UNCHANGED timer
    /\ UNCHANGED appVars

\* apiClient.get rejects: catch, then finally
SearchReject ==
    /\ \E i \in DOMAIN searchReq :
         LET req == searchReq[i]
             mine == isLatest(hdr, req.term)
             shown == mine /\ ~req.aborted
         IN  /\ hdr' = IF shown
                       THEN [hdr EXCEPT !.error = SearchFailed,
                                        !.results = Null,
                                        !.searchOpen = TRUE,
                                        !.loading = FALSE]
                       ELSE IF mine THEN [hdr EXCEPT !.loading = FALSE]
                       ELSE hdr
             /\ searchReq' = RemoveAt(searchReq, i)
             /\ searchLog' = [searchLog EXCEPT !.settled = Append(@, req.id),
                                               !.appliedBy = IF shown THEN req.id ELSE @]
    /\ UNCHANGED timer
    /\ UNCHANGED appVars

----------------------------------------------------------------------------
(* Specifications *)

InitStreamVars ==
    /\ spc = "idle" /\ body = <<>> /\ pos = 0 /\ decPending = <<>> /\ buffer = <<>>
    /\ calls = <<>> /\ abortRequested = FALSE /\ failure = "none" /\ status = 0

InitStore ==
    /\ user = NoUser /\ chat = initialState
    /\ sendPc = "idle" /\ aiMessageId = Null /\ accumulatedContent = <<>>
    /\ sendBase = <<>> /\ finalized = 0 /\ nSettled = 0 /\ inFlight = 0
    /\ histMerged = FALSE /\ lastOutcome = "none"
    /\ thunkLocals = [userId |-> NoUser,
                      userMessage |-> Message(<<"user", 0>>, "user", <<>>, 0),
                      contextMessages |-> <<>>]
    /\ saveFailed = FALSE
    /\ historyRequestedRef = FALSE /\ fetchingOlderRef = FALSE /\ rafPending = FALSE
    /\ histReq = <<>> /\ nSignOuts = 0
    /\ hdr = InitHeader /\ timer = Null /\ searchReq = <<>>
    /\ searchLog = InitSearchLog

\* the application: store, components, history and sends
Init ==
    /\ InitStreamVars
    /\ InitStore
    /\ rows \in Tables
    /\ now = Len(rows) + 1

Next ==
    \/ onAuthStateChange
    \/ onSignedOut
    \/ MountChatInterface
    \/ FetchOlder
    \/ HistorySettle
    \/ AnimationFrame
    \/ TypeInput
    \/ HandleSend
    \/ UserSaveSettle
    \/ AiSaveSettle
    \/ FetchReject
    \/ FetchResponse
    \/ ReaderRead
    \/ ReaderDone
    \/ ReaderThrow

Spec == Init /\ [][Next]_vars

\* one session of one user with a short history: sign-in, the initial page and
\* the sends, when every awaited promise settles: the two inserts and the fetch
\* of the chat request settle, and the body of the response ends or fails
\* (reads that deliver bytes are finitely many, the body being finite)
InitSend ==
    /\ InitStreamVars
    /\ InitStore
    /\ \E n \in {0, 2} : rows = Table(n)
    /\ now = Len(rows) + 1

NextSend ==
    \/ onAuthStateChange
    \/ HistorySettle
    \/ TypeInput
    \/ HandleSend
    \/ UserSaveSettle
    \/ AiSaveSettle
    \/ FetchReject
    \/ FetchResponse
    \/ ReaderRead
    \/ ReaderDone
    \/ ReaderThrow

Fairness ==
    /\ WF_vars(UserSaveSettle)
    /\ WF_vars(AiSaveSettle)
    /\ WF_vars(FetchReject \/ FetchResponse)
    /\ WF_vars(ReaderDone \/ ReaderThrow)

SpecLive == InitSend /\ [][NextSend]_vars /\ Fairness

\* one streamChatResponse session with callbacks that only record the call
InitStream ==
    /\ InitStreamVars
    /\ InitStore
    /\ rows = <<>>
    /\ now = 1

NextStream ==
    \/ StartStream
    \/ FetchReject
    \/ FetchResponse
    \/ ReaderRead
    \/ ReaderDone
    \/ ReaderThrow

SpecStream == InitStream /\ [][NextStream]_vars

\* Header alone: the search input, its debounce timer and its requests
NextSearch ==
    \/ SetQuery
    \/ Tick
    \/ TimerFires
    \/ SearchResolve
    \/ SearchReject

SpecSearch == InitStream /\ [][NextSearch]_vars

\* the same session with a caller that may ask to cancel it
NextAbort == NextStream \/ Abort

SpecAbort == InitStream /\ [][NextAbort]_vars

----------------------------------------------------------------------------
(* Properties of streamChatResponse (SpecStream, SpecAbort) *)

IsTerminal(c) == c.cb \in {"onError", "onComplete"}
Terminals(cs) == Cardinality({i \in 1..Len(cs) : IsTerminal(cs[i])})

\* the text of a body and its segments; all but the last are delimiter-terminated
TextOf(bytes) == Decode(<<>>, bytes).text
SegmentsOf(bytes) == Split(TextOf(bytes), Delimiter)
CompleteSegments(bytes) == Front(SegmentsOf(bytes))

\* index of the first segment that parses to a terminal frame, 0 when none does
FirstTerminal(segs) ==
    LET hits == {i \in 1..Len(segs) : parseSSEChunk(segs[i]).done}
    IN  IF hits = {} THEN 0 ELSE CHOOSE i \in hits : \A j \in hits : i <= j

IsOnChunk(c) == c.cb = "onChunk"
ChunkArgs(cs) ==
    LET sel == SelectSeq(cs, IsOnChunk)
    IN  [i \in 1..Len(sel) |-> sel[i].arg]

\* the callbacks of a session that gets the whole body in one read
SingleRead(bytes) ==
    LET r == ReadStep(<<>>, <<>>, bytes)
    IN  IF r.ret THEN r.out ELSE r.out \o EndStep(r.buffer)

\* C1: in every run of streamChatResponse at most one of onError / onComplete
\* has been invoked, at most once, and when the run has ended (whatever the
\* status, the frames, the reads, a transport failure or a clean end without a
\* Done frame) exactly one has been invoked exactly once.
C1_ExactlyOneTerminal ==
    /\ Terminals(calls) <= 1
    /\ (spc = "done") <=> (Terminals(calls) = 1)

\* a run that ended by a transport failure after it had delivered chunks
C1_Witness == spc = "done" /\ failure = "network" /\ Len(calls) >= 2

\* C2 (as specified): when a delimiter-terminated Error frame is the first terminal
\* frame of the stream, the session calls onError with the trimmed message and
\* never onComplete, for every message text, the empty one included.
C2_ErrorFrameCallsOnError ==
    LET segs == CompleteSegments(body)
        t == FirstTerminal(segs)
    IN  (spc = "done" /\ failure = "none" /\ t > 0 /\ parseSSEChunk(segs[t]).hasError)
        => /\ Last(calls) = OnError(parseSSEChunk(segs[t]).error)
           /\ \A i \in 1..Len(calls) : calls[i].cb # "onComplete"

\* C3: once onError or onComplete has been invoked no further callback is
\* invoked: in the record of calls a terminal call is always the last one.
C3_NothingAfterTerminal ==
    \A i \in 1..Len(calls) : IsTerminal(calls[i]) => i = Len(calls)

\* a run that ended at a terminal frame with all of a body read in which more
\* frames follow that frame
C3_Witness ==
    /\ spc = "done" /\ failure = "none" /\ pos = Len(body)
    /\ LET segs == CompleteSegments(body)
       IN  FirstTerminal(segs) > 0 /\ FirstTerminal(segs) < Len(segs)

\* C4: however the body is split into reads, the session is where a single
\* read of the same bytes would have put it: the same calls in the same order
\* with the same arguments, the same remainder in the buffer, and at the end
\* the calls of a session that read the whole body at once.
C4_ChunkBoundaryIndependence ==
    (failure = "none" /\ spc \in {"reading", "done"})
    => LET one == ReadStep(<<>>, <<>>, SubSeq(body, 1, pos))
       IN  IF spc = "reading"
           THEN /\ calls = one.out
                /\ buffer = one.buffer
                /\ decPending = one.pending
           ELSE calls = SingleRead(body)

\* a read ended between the two newlines of a delimiter, after earlier frames
\* had been emitted
C4_Witness ==
    /\ spc = "reading" /\ calls # <<>>
    /\ pos > 1 /\ pos < Len(body)
    /\ body[pos] = NL /\ body[pos + 1] = NL /\ body[pos - 1] # NL

\* the increment of a Chunk frame: its text and the space the session appends
IncrementOf(frame) == frame.data \o <<SP>>

\* the increments of the non-empty Chunk frames before the first terminal frame
RECURSIVE ExpectedIncrements(_)
ExpectedIncrements(segs) ==
    IF segs = <<>> THEN <<>>
    ELSE LET frame == parseSSEChunk(Head(segs)) IN
         IF frame.done THEN <<>>
         ELSE (IF frame.data # <<>> THEN <<IncrementOf(frame)>> ELSE <<>>)
              \o ExpectedIncrements(Tail(segs))

\* C5: the onChunk calls are exactly the non-empty Chunk frames received before
\* the first terminal frame, in order, none dropped or duplicated, each with
\* the increment of its own frame only (the delimiter-terminated frames while
\* the session runs or after a transport failure; the unterminated last
\* segment too once the stream has ended cleanly).
C5_ChunksInOrder ==
    LET segs == SegmentsOf(SubSeq(body, 1, pos))
        frames == IF spc = "done" /\ failure = "none" THEN segs ELSE Front(segs)
    IN  ChunkArgs(calls) = ExpectedIncrements(frames)

\* a run that ended after two or more chunks
C5_Witness == spc = "done" /\ Len(ChunkArgs(calls)) >= 2

Hello == <<"H", "e", "l", "l", "o">>
World == <<"w", "o", "r", "l", "d">>

\* C6 (as specified): the body of scenario 1 gives onChunk("Hello "),
\* onChunk(" world "), onComplete().
C6_Scenario1LeadingSpace ==
    (spc = "done" /\ failure = "none" /\ body = Scenario1)
    => calls = <<OnChunk(Hello \o <<SP>>), OnChunk(<<SP>> \o World \o <<SP>>),
                 OnComplete>>

\* C6 (amended): the body of scenario 1 gives onChunk("Hello "),
\* onChunk("world "), onComplete(): the text of a frame is trimmed.
C6_Scenario1Trimmed ==
    (spc = "done" /\ failure = "none" /\ body = Scenario1)
    => calls = <<OnChunk(Hello \o <<SP>>), OnChunk(World \o <<SP>>), OnComplete>>

\* the session has read scenario 1 to its end
C6_Witness == spc = "done" /\ failure = "none" /\ body = Scenario1

\* C7 (as specified): after the caller's abort the transport delivers nothing
\* more and no callback fires.
C7_NoCallbackAfterAbort ==
    [][abortRequested => (calls' = calls /\ pos' = pos)]_vars

----------------------------------------------------------------------------
(* Properties of sendMessage and the timeline (Spec) *)

\* C8: at most one sendMessage is in flight, and loading is true for as long
\* as one is.
C8_AtMostOneSendInFlight ==
    /\ inFlight <= 1
    /\ (inFlight = 1) => chat.loading

\* a send is streaming, its first chunk is in the timeline, and a history
\* fetch is in flight
C8_Witness ==
    /\ inFlight = 1 /\ sendPc = "stream" /\ chat.currentStreamId # Null
    /\ histReq # <<>>

\* C9 (as specified): after a send was rejected because its stream failed, the
\* timeline is the timeline before the send plus the optimistic user message
\* (no history page having been merged meanwhile).
C9_FailedStreamLeavesNoPartial ==
    (lastOutcome = "rejected" /\ ~histMerged)
    => /\ Len(chat.messages) = Len(sendBase) + 1
       /\ SubSeq(chat.messages, 1, Len(sendBase)) = sendBase
       /\ Last(chat.messages).role = "user"

\* C10 (as specified): after a send was fulfilled, the entry of the streamed
\* message holds the trimmed concatenation of the increments, the active-stream
\* marker is cleared, and the stream completed exactly once.
C10_FinalizedContentTrimmed ==
    lastOutcome = "fulfilled"
    => /\ LET i == FindIndex(chat.messages, aiMessageId)
          IN  i > 0 => chat.messages[i].content = Trim(accumulatedContent)
       /\ ~chat.streaming
       /\ chat.currentStreamId = Null
       /\ finalized = 1

----------------------------------------------------------------------------
(* Properties of history pagination (Spec) *)

\* C11 (as specified): no two entries of the timeline have the same id, whatever
\* pages were merged into it.
C11_NoDuplicateIds ==
    \A i, j \in DOMAIN chat.messages :
        chat.messages[i].id = chat.messages[j].id => i = j

\* the page request i of histReq would be answered with now
PageOf(i) == QueryPage(histReq[i].userId, histReq[i].before)

\* this step is the fulfilment of request i of histReq
FulfilledStep(i) ==
    /\ histReq' = RemoveAt(histReq, i)
    /\ chat' = fetchChatHistoryFulfilled(chat, PageOf(i))

\* C12: in a pagination sequence (one initial fetch, then older pages, sends
\* in between; that is, while no session has ended) hasMoreHistory becomes false
\* when a fulfilled page has fewer than CHAT_PAGE_SIZE rows, only then, and
\* once false it is never true again.
C12_HasMoreNeverReturns ==
    [][ /\ (nSignOuts' = 0 /\ ~chat.hasMoreHistory) => ~chat'.hasMoreHistory
        /\ \A i \in DOMAIN histReq :
              (FulfilledStep(i) /\ Len(PageOf(i).messages) < CHAT_PAGE_SIZE)
              => ~chat'.hasMoreHistory
        /\ (chat.hasMoreHistory /\ ~chat'.hasMoreHistory)
           => \E i \in DOMAIN histReq :
                 FulfilledStep(i) /\ Len(PageOf(i).messages) < CHAT_PAGE_SIZE
      ]_vars

\* the first page was full, the older page after it was not, and hasMoreHistory
\* is false
C12_Witness ==
    /\ nSignOuts = 0 /\ ~chat.hasMoreHistory
    /\ Len(chat.messages) > CHAT_PAGE_SIZE
    /\ chat.messages[1].id = <<"row", 1>>

\* this step is the fulfilment of an older-page request i of histReq
OlderFulfilledStep(i) == histReq[i].before # Null /\ FulfilledStep(i)

\* C13 (as specified): every fulfilled fetchOlder stores a cursor strictly older
\* than the cursor it was issued with, an empty page included.
C13_CursorStrictlyOlder ==
    [][ \A i \in DOMAIN histReq :
          OlderFulfilledStep(i)
          => /\ chat'.historyCursor # Null
             /\ chat'.historyCursor[1] < histReq[i].before[1]
      ]_vars

\* C13 (amended): a fulfilled fetchOlder with a non-empty page stores a cursor
\* strictly older than the cursor it was issued with; with an empty page it
\* stores the cursor it was issued with and hasMoreHistory becomes false.
C13_CursorOlderUnlessEmpty ==
    [][ \A i \in DOMAIN histReq :
          OlderFulfilledStep(i)
          => /\ chat'.historyCursor # Null
             /\ IF PageOf(i).messages # <<>>
                THEN chat'.historyCursor[1] < histReq[i].before[1]
                ELSE /\ chat'.historyCursor = histReq[i].before
                     /\ ~chat'.hasMoreHistory
      ]_vars

\* an older page of one row was merged in front of a full first page and the
\* cursor stands at that row
C13_Witness ==
    /\ Len(chat.messages) = CHAT_PAGE_SIZE + 1
    /\ chat.messages[1].id = <<"row", 1>>
    /\ chat.historyCursor = <<1>>
    /\ histReq = <<>>

\* this step issues a fetchOlder request
OlderIssuedStep == Len(histReq') > Len(histReq) /\ Last(histReq').before # Null

\* C14 (as specified): a fetchOlder trigger while another history fetch is in
\* flight is a no-op: a fetchOlder request is issued only when no history fetch
\* is in flight, so two older-page fetches are never in flight together.
C14_SingleFlight ==
    [][OlderIssuedStep => histReq = <<>>]_vars

----------------------------------------------------------------------------
(* Properties of the search of Header (SpecSearch) *)

\* this step applies the outcome of a request to the displayed state
AppliedStep == searchLog'.appliedBy # searchLog.appliedBy

BecomesShortStep ==
    /\ Trim(hdr'.query) # Trim(hdr.query)
    /\ Len(Trim(hdr'.query)) < MinTermLength

\* C16 (as specified): when the trimmed query becomes shorter than 2 characters
\* the stored results are cleared in that step and no request is issued for it.
C16_ShortQueryClearsResults ==
    [][BecomesShortStep =>
         /\ hdr'.results = Null
         /\ timer' = Null
         /\ searchLog'.issued = searchLog.issued
      ]_vars

\* this step issues a search request
IssuedStep == Len(searchLog'.issued) > Len(searchLog.issued)

\* C17 (as specified): in a burst of changes of the input, each within the
\* window of the one before, no request is issued before the window after the
\* last change has passed; the request carries the last term; and once the
\* burst is over exactly one request has been issued for it.
C17_OneRequestPerInputBurst ==
    /\ [][IssuedStep =>
            /\ searchLog.sinceEdit >= Window
            /\ Last(searchLog'.issued) = Trim(hdr.query)
         ]_vars
    /\ []((searchLog.edited /\ searchLog.sinceEdit >= Window /\ timer = Null)
           => searchLog.editBurst = 1)

\* C17 (amended): the same for a burst of changes of the trimmed query that
\* ends with a term of at least 2 characters.
C17_OneRequestPerTermBurst ==
    /\ [][IssuedStep =>
            /\ searchLog.sinceChange >= Window
            /\ Last(searchLog'.issued) = Trim(hdr.query)
         ]_vars
    /\ []((searchLog.sinceChange >= Window /\ timer = Null
             /\ Len(Trim(hdr.query)) >= MinTermLength)
           => searchLog.termBurst = 1)
    /\ [](timer # Null => searchLog.termBurst = 0)

\* two changes within the window, the second to "invoice": one request, for
\* "invoice"
C17_Witness ==
    /\ searchLog.issued = <<Invoice>>
    /\ searchLog.termBurst = 1
    /\ searchLog.changes = 2
    /\ hdr.query = Invoice

----------------------------------------------------------------------------
(* More properties of streamChatResponse (SpecStream) and sendMessage (Spec) *)

\* C18: a session whose response had status 401 made exactly one call,
\* onError with the session-expired message, and neither onChunk nor
\* onComplete; that message is not the message of any other status that is
\* not 2xx, each of which also ends in exactly one onError.
C18_Unauthorized ==
    /\ \A code \in Statuses \ {401} : HttpError(code) # SessionExpired
    /\ (spc = "done" /\ status = 401) => calls = <<OnError(SessionExpired)>>
    /\ (spc = "done" /\ status \in Statuses \ {200, 401})
       => calls = <<OnError(HttpError(status))>>

\* a session that ended with the session-expired error
C18_Witness == spc = "done" /\ status = 401 /\ Len(calls) = 1

\* the role a timeline entry is sent with
ApiRole(m) == IF m.role = "user" THEN "user" ELSE "assistant"

\* C19: once sendMessage has prepared its request, the context it carries is
\* the last min(20, n + 1) entries of the timeline of the moment the send
\* started (n entries) followed by the new user message: in timeline order,
\* the user message last and only there, roles mapped to "user" / "assistant".
C19_ContextIsLastTwenty ==
    thunkLocals.contextMessages # <<>>
    => LET ctx == thunkLocals.contextMessages
           n == Len(sendBase)
           k == IF n + 1 < 20 THEN n + 1 ELSE 20
       IN  /\ Len(ctx) = k
           /\ ctx[k] = [role |-> "user", content |-> thunkLocals.userMessage.content]
           /\ \A i \in 1..(k - 1) :
                 ctx[i] = [role |-> ApiRole(sendBase[n + 1 - k + i]),
                           content |-> sendBase[n + 1 - k + i].content]

\* a request is in flight whose send started with 20 or more entries in the
\* timeline
C19_Witness ==
    /\ sendPc = "stream" /\ spc = "fetch"
    /\ Len(sendBase) >= 20
    /\ Len(thunkLocals.contextMessages) = 20

\* how often an id occurs in the timeline
Occurrences(msgs, id) == Cardinality({i \in DOMAIN msgs : msgs[i].id = id})

----------------------------------------------------------------------------
(* Properties of the timeline (Spec) *)

\* the ids of the entries of a timeline
IdsOf(msgs) == {msgs[i].id : i \in DOMAIN msgs}

\* C21 (as specified): within a session no step removes a message from the
\* timeline: every id present before a step of sendMessage, of its callbacks or
\* of a fetchChatHistory fulfilment is present after it.
C21_NoMessageRemoved ==
    [][nSignOuts' = 0 => IdsOf(chat.messages) \subseteq IdsOf(chat'.messages)]_vars

----------------------------------------------------------------------------
(* Properties of parseSSEChunk (SpecStream) *)

\* the reference mapping: the remainder after the trim and the removal of every
\* leading prefix, then Done, Error(message) or Chunk(remainder)
RECURSIVE Remainder(_)
Remainder(text) ==
    LET t == Trim(text)
    IN  IF StartsWith(t, DataPrefix) THEN Remainder(Substring(t, Len(DataPrefix)))
        ELSE t

FrameDone == [data |-> <<>>, done |-> TRUE, hasError |-> FALSE, error |-> <<>>]
FrameError(msg) == [data |-> <<>>, done |-> TRUE, hasError |-> TRUE, error |-> msg]
FrameChunk(text) == [data |-> text, done |-> FALSE, hasError |-> FALSE, error |-> <<>>]

Reference(text) ==
    LET r == Remainder(text)
    IN  IF r = DoneTag THEN FrameDone
        ELSE IF StartsWith(r, ErrorTag) THEN FrameError(Trim(Substring(r, Len(ErrorTag))))
        ELSE FrameChunk(r)

\* every contiguous piece of a text, the empty one included
Pieces(text) ==
    {SubSeq(text, i, j) : i \in 1..(Len(text) + 1), j \in 0..Len(text)}

\* C22: parseSSEChunk equals the reference mapping on every piece of every
\* response body the session reads, a further "data: " prefix does not change
\* its result, and empty text gives Chunk("").
C22_ParseEqualsReference ==
    (spc \in {"reading", "done"})
    => /\ \A x \in Pieces(TextOf(body)) :
            /\ parseSSEChunk(x) = Reference(x)
            /\ parseSSEChunk(DataSp \o x) = parseSSEChunk(x)
       /\ parseSSEChunk(<<>>) = FrameChunk(<<>>)

\* the session has parsed a segment with a repeated prefix and delivered its text
C22_Witness ==
    /\ spc = "done"
    /\ body = SegNested \o Delimiter \o <<NL, "z">>
    /\ \E i \in 1..Len(calls) : calls[i].cb = "onChunk" /\ calls[i].arg[1] = "x"

----------------------------------------------------------------------------
(* Termination of sendMessage (SpecLive) *)

\* a sendMessage settles in this step, fulfilled or rejected
SettledStep == nSettled' = nSettled + 1

\* streamChatResponse issues its request in this step
RequestStep == spc' = "fetch" /\ spc # "fetch"

\* C23: a sendMessage in flight eventually settles when the inserts and the
\* transport settle; the step that settles it leaves loading = false,
\* streaming = false and currentStreamId = null, so that a send with a non-blank
\* input is accepted; and the request of a send is issued once, by the thunk.
C23_SendSettlesClean ==
    /\ (inFlight > 0) ~> (inFlight = 0)
    /\ [][SettledStep =>
             /\ ~chat'.loading /\ ~chat'.streaming /\ chat'.currentStreamId = Null
             /\ \A v \in Inputs :
                  Trim(v) # <<>> => CanSend(setInputValue(chat', v))]_vars
    /\ [][RequestStep => (sendPc = "saveUser" /\ calls' = <<>>)]_vars

\* a send whose stream delivered a chunk and then failed has settled as rejected
C23_Witness ==
    /\ lastOutcome = "rejected" /\ inFlight = 0 /\ nSettled = 1
    /\ \E i \in DOMAIN chat.messages : chat.messages[i].id = aiMessageId
    /\ ~chat.loading /\ ~chat.streaming /\ chat.currentStreamId = Null

----------------------------------------------------------------------------
(* The remaining buffer of streamChatResponse (SpecStream) *)

\* C24 (as specified): when the body ends cleanly, no delimiter-terminated
\* segment is a terminal frame and the last, unterminated segment is an Error
\* frame with a message, the session calls onError with that message and never
\* onComplete.
C24_TrailingErrorCallsOnError ==
    LET last == parseSSEChunk(Last(SegmentsOf(body)))
    IN  (/\ spc = "done" /\ failure = "none"
         /\ FirstTerminal(CompleteSegments(body)) = 0
         /\ last.hasError /\ last.error # <<>>)
        => /\ Last(calls) = OnError(last.error)
           /\ \A i \in 1..Len(calls) : calls[i].cb # "onComplete"

----------------------------------------------------------------------------
(* Order of the timeline (Spec) *)

\* C25 (as specified): in every reachable state the entries of the timeline are
\* in ascending order of creation: no entry stands before one created earlier.
C25_TimelineAscending ==
    \A i, j \in DOMAIN chat.messages :
        i < j => chat.messages[i].createdAt <= chat.messages[j].createdAt

----------------------------------------------------------------------------
(* Late and superseded search responses (SpecSearch) *)

\* a search request settles in this step
SearchSettledStep == Len(searchLog'.settled) = Len(searchLog.settled) + 1

\* C26 (as specified): while the trimmed query is shorter than 2 characters, a
\* search request that settles changes neither the results, nor the error, nor
\* whether the panel is open.
C26_LateResponseIgnored ==
    [][(Len(Trim(hdr.query)) < MinTermLength /\ SearchSettledStep)
       => /\ hdr'.results = hdr.results
          /\ hdr'.error = hdr.error
          /\ hdr'.searchOpen = hdr.searchOpen]_vars

\* C30 (as specified): while the most recently issued search request is in
\* flight and has not been aborted (the query has stayed at 2 characters or
\* more since it was issued), loading is true.
C30_LoadingTracksLatest ==
    \A i \in DOMAIN searchReq :
        (searchReq[i].id = Len(searchLog.issued) /\ ~searchReq[i].aborted)
        => hdr.loading

----------------------------------------------------------------------------
(* The marker of the active stream (Spec) *)

\* C27 (as specified): within a session, when currentStreamId is not null,
\* streaming and loading are true and the timeline has exactly one entry with
\* that id, of role ai.
C27_ActiveStreamMarker ==
    (nSignOuts = 0 /\ chat.currentStreamId # Null)
    => /\ chat.streaming /\ chat.loading
       /\ Cardinality({i \in DOMAIN chat.messages :
                           chat.messages[i].id = chat.currentStreamId}) = 1
       /\ \A i \in DOMAIN chat.messages :
            chat.messages[i].id = chat.currentStreamId => chat.messages[i].role = "ai"

----------------------------------------------------------------------------
(* Completeness of pagination and isolation of sessions (Spec) *)

\* the rows of chat_history that belong to a user
RowsOf(userId) == {i \in DOMAIN rows : rows[i].user_id = userId}

\* the session has loaded its history to the end: the initial page is in, no
\* request is pending or was rejected, no older page is left, and no send has
\* written a row
PaginationDone ==
    /\ nSignOuts = 0 /\ user # NoUser
    /\ chat.initialHistoryLoaded /\ ~chat.hasMoreHistory
    /\ histReq = <<>> /\ chat.error = Null
    /\ nSettled = 0 /\ inFlight = 0

\* C28 (as specified): when the history has been paged to its end and no row was
\* written meanwhile, the timeline holds every row of the user exactly once and
\* nothing else, whatever created_at values the rows at a page boundary have.
C28_PaginationComplete ==
    PaginationDone
    => /\ \A i \in RowsOf(user) : Occurrences(chat.messages, <<"row", rows[i].id>>) = 1
       /\ Len(chat.messages) = Cardinality(RowsOf(user))

\* the entries of a timeline that show a row of chat_history belong to userId
RowEntriesOwnedBy(msgs, userId) ==
    \A k \in DOMAIN msgs :
        msgs[k].id[1] = "row" => rows[msgs[k].id[2]].user_id = userId

\* C29 (as specified): when, after a sign-out and a sign-in, the initial
\* history fetch of the new session is fulfilled, every persisted message in the
\* timeline belongs to the user signed in, also when that user has no history.
C29_SessionIsolation ==
    [][\A i \in DOMAIN histReq :
          (/\ nSignOuts > 0 /\ user # NoUser
           /\ histReq[i].before = Null /\ histReq[i].session = nSignOuts
           /\ histReq[i].userId = user
           /\ FulfilledStep(i))
          => RowEntriesOwnedBy(chat'.messages, user)]_vars

====
